---- MODULE Spec2Model ----
(***************************************************************************)
(* scripts/check-local-status.py: one run of the commit-status gate.       *)
(*                                                                         *)
(* The process reads four environment variables, builds one request,      *)
(* performs one blocking urlopen + json.loads, scans payload["statuses"]   *)
(* for the first entry whose context equals REQUIRED_CONTEXT, prints one   *)
(* line and exits.  An exception that main() does not catch ends the run   *)
(* with the interpreter's traceback on standard error and exit status 1.   *)
(*                                                                         *)
(* JSON values are tagged records, so that Python's == between values of   *)
(* different types is FALSE (as in Python) instead of a type error:        *)
(*   JStr(s) a str, JNull None, JNum a number, JArr(a) a list, JObj(f) a   *)
(*   dict whose keys are DOMAIN f.                                         *)
(* A line of output is the sequence of the pieces its f-string joins.     *)
(***************************************************************************)
EXTENDS Integers, Sequences, FiniteSets, TLC

VARIABLES
    environ,      \* os.environ: a function from the names that are set to their values
    pc,           \* where the run is: start, build, urlopen, scan, loop, decide, exited
    repo, sha, token, required,   \* main()'s locals read from the environment
    req,          \* the urllib Request
    netCalls,     \* how many times urlopen was called
    netOutcome,   \* what the network did with the call: "", "ok" or the error raised
    payload,      \* what json.loads returned
    statuses,     \* the list the for loop iterates
    idx,          \* the position of the loop variable `status` in it
    found_state,  \* main()'s local of that name
    stdout, stderr,   \* the lines written to each stream
    exitCode,     \* <<>> while running, <<n>> once the process has exited with n
    exc           \* the uncaught exception that ended the run, "" if none

vars == <<environ, pc, repo, sha, token, required, req, netCalls, netOutcome, payload,
          statuses, idx, found_state, stdout, stderr, exitCode, exc>>

\* Longest statuses array the response body carries in the model.
MaxStatuses == 2

-----------------------------------------------------------------------------
\* JSON / Python values

JStr(s) == [t |-> "str", s |-> s]

JNull == [t |-> "null"]

JNum == [t |-> "num"]

JArr(a) == [t |-> "arr", a |-> a]

JObj(f) == [t |-> "obj", f |-> f]

\* A local that has not been assigned yet.
Unbound == [t |-> "unbound"]

IsObj(v) == v.t = "obj"

\* Fault: .get(key) without its default, which yields None for an absent key.
GetNoDefault(d, key, default) == IF key \in DOMAIN d.f THEN d.f[key] ELSE JNull

\* str.lower() on the strings of the model, and on a JSON value (the script never
\* lowers anything: these serve the case-folding faults and the case-variant relation).
Lower(s) == CASE s = "CI/Build" -> "ci/build" [] s = "SUCCESS" -> "success" [] OTHER -> s

LowerV(v) == IF v.t = "str" THEN JStr(Lower(v.s)) ELSE v

\* dict.get(key, default)
Get(d, key, default) == IF key \in DOMAIN d.f THEN d.f[key] ELSE default

-----------------------------------------------------------------------------
\* The process environment

EnvNames == {"REPO", "PR_HEAD_SHA", "GH_TOKEN", "REQUIRED_CONTEXT"}

\* The order in which main() reads os.environ.
EnvOrder == <<"REPO", "PR_HEAD_SHA", "GH_TOKEN", "REQUIRED_CONTEXT">>

RequiredValues == {"ci/build", "ci/lint"}

Environs ==
    { [n \in S |-> CASE n = "REPO" -> "owner/name"
                     [] n = "PR_HEAD_SHA" -> "0a1b2c"
                     [] n = "GH_TOKEN" -> "secret"
                     [] OTHER -> r] : S \in SUBSET EnvNames, r \in RequiredValues }

\* The first variable, in reading order, that os.environ[...] fails on (0: none).
FirstMissing(env) ==
    IF \A i \in 1..Len(EnvOrder) : EnvOrder[i] \in DOMAIN env
    THEN 0
    ELSE CHOOSE i \in 1..Len(EnvOrder) :
            /\ EnvOrder[i] \notin DOMAIN env
            /\ \A j \in 1..(i - 1) : EnvOrder[j] \in DOMAIN env

-----------------------------------------------------------------------------
\* Response bodies

ContextValues == {"ci/build", "CI/Build", "ci/lint"}

StateValues == {"success", "SUCCESS", "pending", "failure", "error"}

\* <<>>: the key is absent; <<v>>: the key is present with value v.
ContextFields == {<<>>, <<JNull>>} \cup { <<JStr(c)>> : c \in ContextValues }

StateFields == {<<>>, <<JNull>>} \cup { <<JStr(s)>> : s \in StateValues }

Entry(cf, sf) ==
    JObj([k \in {x \in {"context", "state"} :
                    \/ x = "context" /\ cf # <<>>
                    \/ x = "state" /\ sf # <<>>}
            |-> IF k = "context" THEN cf[1] ELSE sf[1]])

\* What a statuses array may hold: status objects, and values that are no object.
Elements == { Entry(cf, sf) : cf \in ContextFields, sf \in StateFields } \cup {JNum}

RECURSIVE SeqsUpTo(_, _)
SeqsUpTo(S, n) ==
    IF n = 0 THEN {<<>>}
    ELSE LET shorter == SeqsUpTo(S, n - 1)
         IN  shorter \cup { Append(q, e) : q \in {s \in shorter : Len(s) = n - 1}, e \in S }

\* Every value json.loads can return, up to the bounds: an object without
\* "statuses", an object whose "statuses" is null, an object whose "statuses" is
\* an array, and a body that is valid JSON but no object.
Payloads ==
    {JObj(<<>>), JObj([k \in {"statuses"} |-> JNull]), JNull, JArr(<<>>)}
    \cup { JObj([k \in {"statuses"} |-> JArr(a)]) : a \in SeqsUpTo(Elements, MaxStatuses) }

\* What urlopen / resp.read().decode / json.loads raise.
FetchErrors == {"URLError", "HTTPError", "UnicodeDecodeError", "JSONDecodeError"}

-----------------------------------------------------------------------------
\* Output lines

SuccessLine(r) == <<r, " is success">>

MissingLine(r) == <<"Missing required local status: ", r>>

\* str() of a state value, as the f-string formats it.
Format(v) == IF v.t = "str" THEN v.s ELSE IF v.t = "null" THEN "None" ELSE "?"

\* Fault: a diagnostic that does not name the state found.
StateLineNoState(r, s) == <<"Local status ", r, " is not 'success'">>

StateLine(r, s) == <<"Local status ", r, " is '", Format(s), "', expected 'success'">>

\* The interpreter's report of an uncaught exception: a header, the frames, the
\* exception's own line.
Traceback(e) == << <<"Traceback (most recent call last):">>, <<"  File ...">>, <<e>> >>

-----------------------------------------------------------------------------
\* The run

Init ==
    /\ environ \in Environs
    /\ pc = "start"
    /\ repo = Unbound /\ sha = Unbound /\ token = Unbound /\ required = Unbound
    /\ req = Unbound
    /\ netCalls = 0
    /\ netOutcome = ""
    /\ payload = Unbound
    /\ statuses = <<>>
    /\ idx = 0
    /\ found_state = Unbound
    /\ stdout = <<>> /\ stderr = <<>>
    /\ exitCode = <<>>
    /\ exc = ""

\* An exception nothing catches: the interpreter writes the traceback to standard
\* error and the process exits with status 1.
Raise(e) ==
    /\ exc' = e
    /\ stderr' = stderr \o Traceback(e)
    /\ exitCode' = <<1>>
    /\ pc' = "exited"
    /\ UNCHANGED stdout

\* Fault: os.environ.get(name), which yields None instead of raising KeyError.
ReadEnvironGet ==
    /\ pc = "start"
    /\ repo' = (IF "REPO" \in DOMAIN environ THEN JStr(environ["REPO"]) ELSE JNull)
    /\ sha' = (IF "PR_HEAD_SHA" \in DOMAIN environ THEN JStr(environ["PR_HEAD_SHA"]) ELSE JNull)
    /\ token' = (IF "GH_TOKEN" \in DOMAIN environ THEN JStr(environ["GH_TOKEN"]) ELSE JNull)
    /\ required' = (IF "REQUIRED_CONTEXT" \in DOMAIN environ
                    THEN JStr(environ["REQUIRED_CONTEXT"]) ELSE JNull)
    /\ pc' = "build"
    /\ UNCHANGED <<stdout, stderr, exitCode, exc>>
    /\ UNCHANGED <<environ, req, netCalls, netOutcome, payload, statuses, idx, found_state>>

\* repo = os.environ["REPO"] ... required = os.environ["REQUIRED_CONTEXT"]
ReadEnviron ==
    /\ pc = "start"
    /\ IF FirstMissing(environ) # 0
       THEN /\ Raise("KeyError")
            /\ UNCHANGED <<repo, sha, token, required>>
       ELSE /\ repo' = JStr(environ["REPO"])
            /\ sha' = JStr(environ["PR_HEAD_SHA"])
            /\ token' = JStr(environ["GH_TOKEN"])
            /\ required' = JStr(environ["REQUIRED_CONTEXT"])
            /\ pc' = "build"
            /\ UNCHANGED <<stdout, stderr, exitCode, exc>>
    /\ UNCHANGED <<environ, req, netCalls, netOutcome, payload, statuses, idx, found_state>>

HeaderNames == {"Authorization", "Accept", "X-GitHub-Api-Version"}

\* urllib.request.Request(f".../repos/{repo}/commits/{sha}/status", headers={...})
Request(r, s, t) ==
    [url |-> <<"https://api.github.com/repos/", Format(r), "/commits/", Format(s), "/status">>,
     headers |-> [h \in HeaderNames |->
                    CASE h = "Authorization" -> <<"Bearer ", Format(t)>>
                      [] h = "Accept" -> <<"application/vnd.github+json">>
                      [] OTHER -> <<"2022-11-28">>]]

BuildRequest ==
    /\ pc = "build"
    /\ req' = Request(repo, sha, token)
    /\ pc' = "urlopen"
    /\ UNCHANGED <<environ, repo, sha, token, required, netCalls, netOutcome, payload, statuses,
                   idx, found_state, stdout, stderr, exitCode, exc>>

\* Fault: the failure is caught and the request is made again.
OnFetchErrorRetry(e) ==
    /\ pc' = "urlopen"
    /\ UNCHANGED <<payload, stdout, stderr, exitCode, exc>>

\* No try/except encloses the with block: what it raises leaves main().
OnFetchError(e) ==
    /\ Raise(e)
    /\ UNCHANGED payload

\* with urlopen(req) as resp: payload = json.loads(resp.read().decode("utf-8"))
\* The one network call; it fails, or the body decodes to some JSON value.
UrlOpen ==
    /\ pc = "urlopen"
    /\ netCalls' = netCalls + 1
    /\ \/ \E e \in FetchErrors :
            /\ netOutcome' = e
            /\ OnFetchError(e)
       \/ \E p \in Payloads :
            /\ netOutcome' = "ok"
            /\ payload' = p
            /\ pc' = "scan"
            /\ UNCHANGED <<stdout, stderr, exitCode, exc>>
    /\ UNCHANGED <<environ, repo, sha, token, required, req, statuses, idx, found_state>>

\* found_state = None; the iterable of the for statement, payload.get("statuses", []).
\* .get on a value that is no dict raises AttributeError, iterating None TypeError.
BeginScan ==
    /\ pc = "scan"
    /\ found_state' = JNull
    /\ IF ~IsObj(payload)
       THEN /\ Raise("AttributeError")
            /\ UNCHANGED <<statuses, idx>>
       ELSE LET it == Get(payload, "statuses", JArr(<<>>))
            IN  IF it.t # "arr"
                THEN /\ Raise("TypeError")
                     /\ UNCHANGED <<statuses, idx>>
                ELSE /\ statuses' = it.a
                     /\ idx' = 1
                     /\ pc' = "loop"
                     /\ UNCHANGED <<stdout, stderr, exitCode, exc>>
    /\ UNCHANGED <<environ, repo, sha, token, required, req, netCalls, netOutcome, payload>>

\* Fault: the contexts are compared without regard to letter case.
MatchesIgnoreCase(status, r) == LowerV(Get(status, "context", JNull)) = LowerV(r)

\* status.get("context") == required
Matches(status, r) == Get(status, "context", JNull) = r

\* Fault: no break, so the loop goes on and a later match overwrites found_state.
AfterMatchNoBreak(i) == [pc |-> "loop", idx |-> i + 1]

\* break: the loop is left and `status` stays where it is.
AfterMatch(i) == [pc |-> "decide", idx |-> i]

\* One iteration of the for loop, or its end.
Loop ==
    /\ pc = "loop"
    /\ IF idx > Len(statuses)
       THEN /\ pc' = "decide"
            /\ UNCHANGED <<idx, found_state, stdout, stderr, exitCode, exc>>
       ELSE LET status == statuses[idx]
            IN  IF ~IsObj(status)
                THEN /\ Raise("AttributeError")
                     /\ UNCHANGED <<idx, found_state>>
                ELSE IF Matches(status, required)
                THEN /\ found_state' = Get(status, "state", JNull)
                     /\ pc' = AfterMatch(idx).pc
                     /\ idx' = AfterMatch(idx).idx
                     /\ UNCHANGED <<stdout, stderr, exitCode, exc>>
                ELSE /\ idx' = idx + 1
                     /\ UNCHANGED <<pc, found_state, stdout, stderr, exitCode, exc>>
    /\ UNCHANGED <<environ, repo, sha, token, required, req, netCalls, netOutcome, payload, statuses>>

\* Fault: the literal compared with is misspelt.
IsSuccessTypo(fs) == fs = JStr("succes")

\* Fault: the state is compared without regard to letter case.
IsSuccessIgnoreCase(fs) == LowerV(fs) = JStr("success")

\* found_state == "success"
IsSuccess(fs) == fs = JStr("success")

\* Fault: the missing-status print lacks file=sys.stderr.
OutcomeMissingToStdout(fs, r) ==
    IF IsSuccess(fs)
    THEN [out |-> <<SuccessLine(Format(r))>>, err |-> <<>>, code |-> 0]
    ELSE IF fs = JNull
    THEN [out |-> <<MissingLine(Format(r))>>, err |-> <<>>, code |-> 1]
    ELSE [out |-> <<>>, err |-> <<StateLine(Format(r), fs)>>, code |-> 1]

\* Fault: no `found_state is None` branch; every failure names the state.
OutcomeNoMissing(fs, r) ==
    IF IsSuccess(fs)
    THEN [out |-> <<SuccessLine(Format(r))>>, err |-> <<>>, code |-> 0]
    ELSE [out |-> <<>>, err |-> <<StateLine(Format(r), fs)>>, code |-> 1]

\* The three-way decision: what is printed where, and main()'s return value.
Outcome(fs, r) ==
    IF IsSuccess(fs)
    THEN [out |-> <<SuccessLine(Format(r))>>, err |-> <<>>, code |-> 0]
    ELSE IF fs = JNull
    THEN [out |-> <<>>, err |-> <<MissingLine(Format(r))>>, code |-> 1]
    ELSE [out |-> <<>>, err |-> <<StateLine(Format(r), fs)>>, code |-> 1]

\* The prints, return, and raise SystemExit(main()).
Decide ==
    /\ pc = "decide"
    /\ stdout' = stdout \o Outcome(found_state, required).out
    /\ stderr' = stderr \o Outcome(found_state, required).err
    /\ exitCode' = <<Outcome(found_state, required).code>>
    /\ pc' = "exited"
    /\ UNCHANGED <<environ, repo, sha, token, required, req, netCalls, netOutcome,
                   payload, statuses, idx, found_state, exc>>

Next == ReadEnviron \/ BuildRequest \/ UrlOpen \/ BeginScan \/ Loop \/ Decide

Spec == Init /\ [][Next]_vars

-----------------------------------------------------------------------------
\* The properties.  They are stated on the response body and on what the run
\* left behind, by definitions that use none of the operators of the run above.

Exited == pc = "exited"

\* The fetch and the JSON decode succeeded.
Fetched == netOutcome = "ok"

\* REQUIRED_CONTEXT as the run read it.
RequiredContext == environ["REQUIRED_CONTEXT"]

\* The body is an object whose "statuses", if present, is an array.
Iterable(p) == IsObj(p) /\ ("statuses" \in DOMAIN p.f => p.f["statuses"].t = "arr")

\* The statuses array of the body (empty when there is none).
ListOf(p) ==
    IF IsObj(p) /\ "statuses" \in DOMAIN p.f /\ p.f["statuses"].t = "arr"
    THEN p.f["statuses"].a
    ELSE <<>>

HasContext(e, r) == IsObj(e) /\ "context" \in DOMAIN e.f /\ e.f["context"] = JStr(r)

\* The state of a status object: None when the field is absent or null.
StateOf(e) == IF "state" \in DOMAIN e.f THEN e.f["state"] ELSE JNull

MatchIdx(p, r) == { i \in DOMAIN ListOf(p) : HasContext(ListOf(p)[i], r) }

\* The position of the earliest entry whose context equals r, 0 if there is none.
FirstIdx(p, r) ==
    IF MatchIdx(p, r) = {} THEN 0
    ELSE CHOOSE i \in MatchIdx(p, r) : \A j \in MatchIdx(p, r) : i <= j

\* The body has the shape the scan relies on: an object, "statuses" absent or an
\* array, and every element of it up to and including the first match (all of
\* them when nothing matches) a JSON object.
Scannable(p, r) ==
    /\ Iterable(p)
    /\ \A i \in DOMAIN ListOf(p) :
          (FirstIdx(p, r) = 0 \/ i <= FirstIdx(p, r)) => IsObj(ListOf(p)[i])

\* The body is of the response shape of the interface: an object, "statuses"
\* absent or an array of objects.
DataModel(p) == Iterable(p) /\ \A i \in DOMAIN ListOf(p) : IsObj(ListOf(p)[i])

IsSuccessLine(line) == Len(line) = 2 /\ line[2] = " is success"

IsDiagnostic(line) == line[1] \in {"Missing required local status: ", "Local status "}

Mentions(lines, text) ==
    \E k \in DOMAIN lines : \E j \in DOMAIN lines[k] : lines[k][j] = text

WroteSuccess(r) ==
    /\ exitCode = <<0>>
    /\ stdout = << <<r, " is success">> >>
    /\ stderr = <<>>

WroteMissing(r) ==
    /\ exitCode = <<1>>
    /\ stdout = <<>>
    /\ stderr = << <<"Missing required local status: ", r>> >>

WroteState(r, text) ==
    /\ exitCode = <<1>>
    /\ stdout = <<>>
    /\ stderr = << <<"Local status ", r, " is '", text, "', expected 'success'">> >>

\* What the run must have left behind when the state s decided it.
DecidedBy(r, s) ==
    IF s = JStr("success") THEN WroteSuccess(r)
    ELSE IF s = JNull THEN WroteMissing(r)
    ELSE WroteState(r, s.s)

-----------------------------------------------------------------------------
\* C1 as stated: whenever the body (of the interface's shape) contains an entry
\* with context == REQUIRED_CONTEXT and state == "success", the run exits 0 and
\* writes to standard output only.
C1_AnySuccessEntryPasses ==
    (Exited /\ Fetched /\ DataModel(payload)
       /\ \E i \in MatchIdx(payload, RequiredContext) :
             StateOf(ListOf(payload)[i]) = JStr("success"))
    => (exitCode = <<0>> /\ stdout # <<>> /\ stderr = <<>>)

\* C1, amended: whenever the FIRST entry whose context equals REQUIRED_CONTEXT has
\* state "success" (and the elements before it are JSON objects), the run exits
\* 0, writes the one line "<REQUIRED_CONTEXT> is success" to standard output and
\* nothing to standard error.
C1_FirstSuccessEntryPasses ==
    (Exited /\ Fetched /\ Scannable(payload, RequiredContext)
       /\ FirstIdx(payload, RequiredContext) # 0
       /\ StateOf(ListOf(payload)[FirstIdx(payload, RequiredContext)]) = JStr("success"))
    => WroteSuccess(RequiredContext)

\* A run that passed on its first match although a later entry of the same
\* context is pending.
C1_Witness ==
    /\ Exited /\ Fetched /\ exitCode = <<0>>
    /\ Len(ListOf(payload)) = 2
    /\ MatchIdx(payload, RequiredContext) = {1, 2}
    /\ StateOf(ListOf(payload)[1]) = JStr("success")
    /\ StateOf(ListOf(payload)[2]) = JStr("pending")

\* C2 as stated: whenever the body (a JSON object) holds no entry whose context
\* equals REQUIRED_CONTEXT, the run raises nothing, exits 1 and writes the
\* missing-status line to standard error and nothing to standard output.
C2_NoMatchNeverRaises ==
    (Exited /\ Fetched /\ IsObj(payload) /\ MatchIdx(payload, RequiredContext) = {})
    => (exc = "" /\ WroteMissing(RequiredContext))

\* C2, amended: the same for every body that is a JSON object whose "statuses"
\* is absent or an array of JSON objects (the key absent and the array empty
\* included).
C2_NoMatchIsMissing ==
    (Exited /\ Fetched /\ DataModel(payload) /\ MatchIdx(payload, RequiredContext) = {})
    => (exc = "" /\ WroteMissing(RequiredContext))

\* A run on a body without the "statuses" key that ended with the missing-status line.
C2_Witness ==
    /\ Exited /\ Fetched /\ IsObj(payload)
    /\ "statuses" \notin DOMAIN payload.f
    /\ exc = ""
    /\ Mentions(stderr, "Missing required local status: ")

\* C3 as stated: whenever the body (of the interface's shape) contains a matching
\* entry whose state is not "success", the run exits 1, writes nothing to standard
\* output, and standard error contains that state.
C3_AnyFailingEntryFails ==
    (Exited /\ Fetched /\ DataModel(payload))
    => \A i \in MatchIdx(payload, RequiredContext) :
          StateOf(ListOf(payload)[i]) # JStr("success")
          => /\ exitCode = <<1>>
             /\ stdout = <<>>
             /\ Mentions(stderr, Format(StateOf(ListOf(payload)[i])))

\* C3, amended: whenever the FIRST entry whose context equals REQUIRED_CONTEXT has
\* a state that is a string other than "success" (and the elements before it are
\* JSON objects), the run exits 1, writes nothing to standard output, and its one
\* line on standard error contains that string.
C3_FirstFailingEntryFails ==
    (Exited /\ Fetched /\ Scannable(payload, RequiredContext)
       /\ FirstIdx(payload, RequiredContext) # 0)
    => LET s == StateOf(ListOf(payload)[FirstIdx(payload, RequiredContext)])
       IN  (s.t = "str" /\ s.s # "success")
           => /\ exitCode = <<1>>
              /\ stdout = <<>>
              /\ Len(stderr) = 1
              /\ IsDiagnostic(stderr[1])
              /\ Mentions(stderr, s.s)

\* A run that failed on a first match in state "failure" and named it.
C3_Witness ==
    /\ Exited /\ Fetched /\ exitCode = <<1>>
    /\ FirstIdx(payload, RequiredContext) # 0
    /\ StateOf(ListOf(payload)[FirstIdx(payload, RequiredContext)]) = JStr("failure")
    /\ Mentions(stderr, "failure")

\* C4 as stated: whenever the body carries an entry whose context equals
\* REQUIRED_CONTEXT, the scan stopped at the earliest such entry, and that entry's
\* state alone decides the exit code and the line written, whatever follows it.
C4_ScanStopsAtFirstMatch ==
    (Exited /\ Fetched /\ FirstIdx(payload, RequiredContext) # 0)
    => LET first == FirstIdx(payload, RequiredContext)
       IN  /\ idx = first
           /\ DecidedBy(RequiredContext, StateOf(ListOf(payload)[first]))

\* C4, amended: first-match semantics hold provided every element of statuses
\* before the earliest entry whose context equals REQUIRED_CONTEXT is a JSON
\* object.  Then the scan stopped at that entry, found_state is its state, and
\* the exit code and the line written are those its state alone decides,
\* whatever the states of later entries of the same context.
C4_FirstMatchWins ==
    (Exited /\ Fetched /\ Scannable(payload, RequiredContext)
       /\ FirstIdx(payload, RequiredContext) # 0)
    => LET first == FirstIdx(payload, RequiredContext)
       IN  /\ exc = ""
           /\ idx = first
           /\ found_state = StateOf(ListOf(payload)[first])
           /\ DecidedBy(RequiredContext, StateOf(ListOf(payload)[first]))

\* A run on two entries of the required context, the first pending and the
\* second successful, that failed.
C4_Witness ==
    /\ Exited /\ Fetched /\ exitCode = <<1>>
    /\ Len(ListOf(payload)) = 2
    /\ MatchIdx(payload, RequiredContext) = {1, 2}
    /\ StateOf(ListOf(payload)[1]) = JStr("pending")
    /\ StateOf(ListOf(payload)[2]) = JStr("success")

\* C5: when any of the four variables is unset, the run never gets past reading
\* the environment: no request is built, no network call is made, nothing is
\* written to standard output, no success line and no domain diagnostic is
\* written anywhere, and the run ends with the uncaught KeyError and a non-zero
\* exit status.
C5_MissingVariableFailsBeforeNetwork ==
    (DOMAIN environ # EnvNames)
    => /\ pc \in {"start", "exited"}
       /\ netCalls = 0
       /\ req = Unbound
       /\ stdout = <<>>
       /\ \A k \in DOMAIN stderr : ~IsDiagnostic(stderr[k]) /\ ~IsSuccessLine(stderr[k])
       /\ Exited => (exc = "KeyError" /\ exitCode # <<>> /\ exitCode # <<0>> /\ stderr # <<>>)

\* A run with only REQUIRED_CONTEXT unset that ended with the KeyError.
C5_Witness ==
    /\ Exited
    /\ DOMAIN environ = EnvNames \ {"REQUIRED_CONTEXT"}
    /\ exc = "KeyError"
    /\ netCalls = 0

\* C6 as stated: in every run where the four variables are set and the fetch and
\* the JSON decode succeeded, there was exactly one network call, exactly one line
\* was written, to exactly one stream, the exit code is 0 or 1, and the line is
\* on standard output exactly when the code is 0 and on standard error exactly
\* when it is 1.
C6_OneCallOneLine ==
    (Exited /\ DOMAIN environ = EnvNames /\ Fetched)
    => /\ netCalls = 1
       /\ Len(stdout) + Len(stderr) = 1
       /\ exitCode \in {<<0>>, <<1>>}
       /\ (Len(stdout) = 1) <=> (exitCode = <<0>>)
       /\ (Len(stderr) = 1) <=> (exitCode = <<1>>)

\* C6, amended: the same in every such run whose decoded body is a JSON object
\* with "statuses" absent or an array in which every element up to and including
\* the first match (every element, when nothing matches) is a JSON object.
C6_OneCallOneLineOnScannable ==
    (Exited /\ DOMAIN environ = EnvNames /\ Fetched /\ Scannable(payload, RequiredContext))
    => /\ netCalls = 1
       /\ Len(stdout) + Len(stderr) = 1
       /\ exitCode \in {<<0>>, <<1>>}
       /\ (Len(stdout) = 1) <=> (exitCode = <<0>>)
       /\ (Len(stderr) = 1) <=> (exitCode = <<1>>)

\* A run that found nothing and wrote its one line to standard error.
C6_Witness ==
    /\ Exited /\ Fetched /\ exc = ""
    /\ MatchIdx(payload, RequiredContext) = {}
    /\ Len(ListOf(payload)) >= 1
    /\ netCalls = 1
    /\ Len(stderr) = 1 /\ stdout = <<>>
    /\ exitCode = <<1>>

\* The contexts differ, and only in letter case.
CaseVariant(c, r) == c # r /\ Lower(c) = Lower(r)

\* C7: matching is exact and case-sensitive.  The entry the scan took its state
\* from has a context equal to REQUIRED_CONTEXT character for character; and a
\* body whose entries all carry a context that differs from REQUIRED_CONTEXT only
\* in letter case yields exit 1 with the missing-status line, whatever their
\* states ("success" included).
C7_MatchIsExact ==
    /\ (pc \in {"decide", "exited"} /\ exc = "" /\ found_state # JNull)
       => HasContext(statuses[idx], RequiredContext)
    /\ (Exited /\ Fetched /\ ListOf(payload) # <<>>
          /\ \A i \in DOMAIN ListOf(payload) :
                \E c \in ContextValues :
                    /\ CaseVariant(c, RequiredContext)
                    /\ HasContext(ListOf(payload)[i], c))
       => (found_state = JNull /\ WroteMissing(RequiredContext))

\* A run whose only entry is a successful status of a case variant of the
\* required context, and that reported the status missing.
C7_Witness ==
    /\ Exited /\ Fetched
    /\ Len(ListOf(payload)) = 1
    /\ RequiredContext = "ci/build"
    /\ HasContext(ListOf(payload)[1], "CI/Build")
    /\ StateOf(ListOf(payload)[1]) = JStr("success")
    /\ exitCode = <<1>>

\* C8: once the network call has failed (unreachable, non-2xx, undecodable body),
\* the run is over with the uncaught exception and a non-zero exit status: there
\* was exactly one call and no other, no payload, the scan was never started, and
\* neither the success line nor a domain diagnostic was written.  No run makes
\* more than one call.
C8_FetchFailureIsFatal ==
    /\ netCalls <= 1
    /\ (netOutcome \in FetchErrors)
       => /\ Exited
          /\ exc = netOutcome
          /\ exitCode # <<>> /\ exitCode # <<0>>
          /\ netCalls = 1
          /\ payload = Unbound /\ found_state = Unbound /\ idx = 0
          /\ stdout = <<>>
          /\ \A k \in DOMAIN stderr : ~IsDiagnostic(stderr[k]) /\ ~IsSuccessLine(stderr[k])

\* A run ended by a non-2xx response.
C8_Witness ==
    /\ Exited
    /\ netOutcome = "HTTPError"
    /\ exc = "HTTPError"
    /\ netCalls = 1

\* The body's statuses without the objects of another context (or of none).
OwnEntries(p, r) == SelectSeq(ListOf(p), LAMBDA e : ~IsObj(e) \/ HasContext(e, r))

\* C9: no false pass.  In every state of every run, exit code 0 or a success line
\* on either stream implies that the fetch and decode succeeded and that the
\* first entry whose context equals REQUIRED_CONTEXT has the state "success",
\* exactly; and what a run leaves behind is what the body with the entries of
\* other contexts removed decides (the uncaught exception of a body that cannot
\* be scanned included).
C9_NoFalsePass ==
    /\ (\/ exitCode = <<0>>
        \/ \E k \in DOMAIN stdout : IsSuccessLine(stdout[k])
        \/ \E k \in DOMAIN stderr : IsSuccessLine(stderr[k]))
       => /\ DOMAIN environ = EnvNames
          /\ Fetched
          /\ FirstIdx(payload, RequiredContext) # 0
          /\ StateOf(ListOf(payload)[FirstIdx(payload, RequiredContext)]) = JStr("success")
          /\ WroteSuccess(RequiredContext)
    /\ (Exited /\ Fetched)
       => LET own == OwnEntries(payload, RequiredContext)
          IN  /\ (exc # "") <=> (~Iterable(payload) \/ (own # <<>> /\ ~IsObj(own[1])))
              /\ (exc = "")
                 => IF own = <<>> THEN WroteMissing(RequiredContext)
                    ELSE DecidedBy(RequiredContext, StateOf(own[1]))

\* A run that passed on a match behind an entry of another context.
C9_Witness ==
    /\ Exited /\ exitCode = <<0>>
    /\ Len(ListOf(payload)) = 2
    /\ FirstIdx(payload, RequiredContext) = 2
    /\ StateOf(ListOf(payload)[1]) = JStr("failure")

\* C10 as stated: whenever the first entry whose context equals REQUIRED_CONTEXT
\* has no state field or a null state, the scan stopped at that entry and the run
\* exits 1 with the missing-status line.
C10_NullStateAlwaysMissing ==
    (Exited /\ Fetched
       /\ FirstIdx(payload, RequiredContext) # 0
       /\ StateOf(ListOf(payload)[FirstIdx(payload, RequiredContext)]) = JNull)
    => /\ idx = FirstIdx(payload, RequiredContext)
       /\ WroteMissing(RequiredContext)

\* C10, amended: whenever the first entry whose context equals REQUIRED_CONTEXT
\* has no state field or a null state, and every element of statuses before it
\* is a JSON object, the scan stopped at that entry (later entries of the same
\* context, successful ones included, were not consulted) and the run exits 1
\* with the missing-status line, as when nothing matches, and not with the line
\* that names a state.
C10_NullStateReportsMissing ==
    (Exited /\ Fetched /\ Scannable(payload, RequiredContext)
       /\ FirstIdx(payload, RequiredContext) # 0
       /\ StateOf(ListOf(payload)[FirstIdx(payload, RequiredContext)]) = JNull)
    => /\ exc = ""
       /\ idx = FirstIdx(payload, RequiredContext)
       /\ found_state = JNull
       /\ WroteMissing(RequiredContext)

\* A run whose first match has no state field and whose second is successful,
\* and that reported the status missing.
C10_Witness ==
    /\ Exited /\ Fetched
    /\ Len(ListOf(payload)) = 2
    /\ MatchIdx(payload, RequiredContext) = {1, 2}
    /\ "state" \notin DOMAIN ListOf(payload)[1].f
    /\ StateOf(ListOf(payload)[2]) = JStr("success")
    /\ idx = 1
    /\ Mentions(stderr, "Missing required local status: ")

====
